---- MODULE Spec2Model ----
(***************************************************************************)
(* State-machine model of the metrics/alerting core of cloudence:          *)
(*   - AlertManager (explore/advanced-k8s-monitoring-agent.py)             *)
(*   - the TTL cache of KubernetesAIAgent (explore/k8s-ai-agent-main.py)   *)
(***************************************************************************)
EXTENDS Integers, Sequences, FiniteSets, TLC

(***************************************************************************)
(* Bounds of the model.                                                    *)
(***************************************************************************)
\* total number of add_alert / check_alert calls explored
MaxOps == 3
\* largest clock reading explored
MaxTime == 1
\* a history cap, for the statement that the history is bounded
HistoryCap == 1

\* total number of _cache_get / _cache_set calls explored
MaxCacheOps == 3
\* largest clock reading explored by the cache specifications
MaxCacheTime == 2
\* largest cache_timeout explored
MaxTimeout == 1
\* total number of process_natural_language_query calls explored
MaxQueries == 2
\* largest number of points in the time series the backend holds
MaxPoints == 2
\* largest number of widgets of a dashboard
MaxWidgets == 2
\* largest number of notification channels of the configuration
MaxChannels == 2
\* largest number of alerts in a batch
MaxBatch == 2
\* total number of store_historical_data calls explored
MaxStores == 1002

MetricNames == {"cpu", "memory"}
\* the thresholds of setup_default_alerts (lines 226, 234) and metric
\* values below, at and above the first of them
Thresholds == {80, 90}
Values == {79, 80, 85}
\* AlertConfig.comparison is a free string; "ge" stands for any string
\* other than the three the code tests for
Comparisons == {"gt", "lt", "eq", "ge"}
\* the description of the cpu rule of setup_default_alerts (line 230)
Descriptions == {"CPU utilization above 80%"}
WindowMinutes == {5}
\* coroutines that may call check_alert on the one event loop
Tasks == {1, 2}

VARIABLES
    \* ---- AlertManager ----
    alerts,         \* self.alerts: metric_name -> AlertConfig (a dict)
    alert_history,  \* self.alert_history: list of alert_info
    pc,             \* per task: "idle" or "await_callback" (line 56)
    alert_info,     \* per task: the local alert_info of the running call
    result,         \* per task: outcome of its last completed check_alert
    hook_calls,     \* arguments the callbacks were invoked with, in order
    \* ---- history variables of the AlertManager ----
    call,           \* per task: its current/last check_alert call
    reg_log,        \* per metric: the configs registered for it, in order
    last_eval,      \* per metric: its most recent check_alert call
    overlapped,     \* a qualifying evaluation ran while another one of the
                    \* same metric was suspended at its callback
    ops,            \* number of add_alert / check_alert calls so far
    \* ---- TTL cache of KubernetesAIAgent ----
    cache,             \* self.cache: cache_type -> (key -> value)
    cache_timestamps,  \* self.cache_timestamps: "cache_type:key" -> datetime
    cache_timeout,     \* self.cache_timeout, seconds
    cpc,               \* per thread: "idle" or the line it is about to run
    cop,               \* per thread: its current/last cache call
    timestamp,         \* per thread: the local timestamp of _cache_get
    cret,              \* per thread: what its last cache call returned
    \* ---- history variables of the cache ----
    last_set,          \* per (cache_type, key): the last completed _cache_set
    written,           \* the entries completed _cache_set calls stored
    cops,              \* number of cache calls so far
    \* ---- process_natural_language_query of KubernetesAIAgent ----
    nlq_pc,            \* per task: "idle" or "await_212" (_process_by_type)
    nlq_call,          \* per task: its current/last call
    nlq_ret,           \* per task: what its last call returned
    nlq_ops,           \* number of process_natural_language_query calls
    \* ---- QueryExecutor of the dashboard fetcher ----
    collector,         \* the time series the monitoring backend holds
    exec_pc,           \* "idle", "await_168" (query_time_series) or "done"
    options,           \* the QueryOptions of the execute_query call
    exec_ret,          \* the outcome of the execute_query call
    \* ---- fan-out drivers: execute_dashboard_queries, monitor ----
    driver,            \* "none", "dashboard" or "monitor"
    tasks,             \* the awaitables handed to asyncio.gather, in order
    fan_pc,            \* "idle", "await_gather", "returned" or "raised"
    results,           \* the combined result: title -> result
    \* ---- AlertManager of the stackdriver agent ----
    notification_channels,  \* self.config.notification_channels
    batch,             \* the alerts argument of send_alerts
    send_pc,           \* "idle", "await_417" (session.post), "await_402",
                       \* "await_404" or "done"
    send_a,            \* index of the alert the loop of line 388 is at
    send_i,            \* index of the channel the loop of line 397 is at
    sent_alerts,       \* self.sent_alerts: the keys of the recorded alerts
    send_log,          \* the errors logged at line 406, in order
    \* ---- history variables of the AlertManager ----
    attempts,          \* the channel sends that completed, in order
    recorded,          \* indices of the alerts recorded as sent, in order
    \* ---- generate_alerts of AdvancedStackdriverAIAgent ----
    gen_pc,            \* "idle", "await_280" (send_alerts) or "done"
    gen_in,            \* the alerts built at lines 261-273
    unique_alerts,     \* the local unique_alerts of line 276
    scored_alerts,     \* the local scored_alerts of lines 334-337
    gen_ret,           \* what generate_alerts returned
    \* ---- BaseMetric of the monitoring agent ----
    historical_data,   \* self.historical_data: list of {timestamp, data}
    utcnow,            \* the reading of datetime.utcnow(), one tick per call
    \* ---- clock ----
    now             \* datetime.now() / datetime.utcnow()

alertVars == <<alerts, alert_history, pc, alert_info, result, hook_calls,
               call, reg_log, last_eval, overlapped, ops>>
cacheVars == <<cache, cache_timestamps, cache_timeout, cpc, cop, timestamp,
               cret, last_set, written, cops>>
nlqVars == <<nlq_pc, nlq_call, nlq_ret, nlq_ops>>
execVars == <<collector, exec_pc, options, exec_ret>>
fanVars == <<driver, tasks, fan_pc, results>>
sendVars == <<notification_channels, batch, send_pc, send_a, send_i,
              sent_alerts, send_log, attempts, recorded>>
genVars == <<gen_pc, gen_in, unique_alerts, scored_alerts, gen_ret>>
metricVars == <<historical_data, utcnow>>
vars == <<alertVars, cacheVars, nlqVars, execVars, fanVars, sendVars, metricVars, genVars, now>>

(***************************************************************************)
(* AlertConfig (lines 15-22).  The callback is the environment: it is      *)
(* modelled by the actions callback_return / callback_raise.               *)
(***************************************************************************)
AlertConfig == [threshold: Thresholds, comparison: Comparisons,
                window_minutes: WindowMinutes, description: Descriptions]

NoInfo == [metric |-> "", value |-> 0, threshold |-> 0, timestamp |-> 0,
           description |-> ""]
NoConfig == [threshold |-> 0, comparison |-> "", window_minutes |-> 0,
             description |-> ""]
\* n: number of the call; had_rule/config: the rule table entry before the
\* call; latest: the config last registered for the metric; fired: the call
\* built an alert_info
NoCall == [n |-> 0, metric |-> "", value |-> 0, had_rule |-> FALSE,
           config |-> NoConfig, latest |-> NoConfig, fired |-> FALSE]
None == [kind |-> "none", info |-> NoInfo]

\* the if/elif chain of check_alert, lines 38-45
ShouldAlert_NotStrict(config, value) ==
    \/ config.comparison = "gt" /\ value >= config.threshold
    \/ config.comparison = "lt" /\ value <= config.threshold
    \/ config.comparison = "eq" /\ value = config.threshold

ShouldAlert(config, value) ==
    IF config.comparison = "gt" /\ value > config.threshold THEN TRUE
    ELSE IF config.comparison = "lt" /\ value < config.threshold THEN TRUE
    ELSE IF config.comparison = "eq" /\ value = config.threshold THEN TRUE
    ELSE FALSE

\* the dict literal of lines 48-54
AlertInfo(metric_name, value, config, t) ==
    [metric |-> metric_name, value |-> value, threshold |-> config.threshold,
     timestamp |-> t, description |-> config.description]

\* self.alerts[metric_name] = config, line 31
DictSet_KeepFirst(d, k, v) ==
    [x \in DOMAIN d \cup {k} |-> IF x \in DOMAIN d THEN d[x] ELSE v]

DictSet(d, k, v) ==
    [x \in DOMAIN d \cup {k} |-> IF x = k THEN v ELSE d[x]]

\* self.alert_history.append(alert_info), line 55
HistoryAppend_Overwrite(h, e) ==
    IF Len(h) = 0 THEN <<e>> ELSE [h EXCEPT ![Len(h)] = e]

HistoryAppend(h, e) == Append(h, e)

\* config.callback(alert_info), line 56: the callback is called with the
\* alert_info of this call
CallbackInvoke_OncePerMetric(calls, info) ==
    IF \E i \in DOMAIN calls : calls[i].metric = info.metric
    THEN calls ELSE Append(calls, info)

CallbackInvoke(calls, info) == Append(calls, info)

(***************************************************************************)
(* AlertManager.__init__, lines 26-28                                      *)
(***************************************************************************)
InitAlert ==
    /\ alerts = << >>
    /\ alert_history = << >>
    /\ pc = [t \in Tasks |-> "idle"]
    /\ alert_info = [t \in Tasks |-> NoInfo]
    /\ result = [t \in Tasks |-> [kind |-> "init", info |-> NoInfo]]
    /\ hook_calls = << >>
    /\ call = [t \in Tasks |-> NoCall]
    /\ reg_log = [m \in MetricNames |-> << >>]
    /\ last_eval = [m \in MetricNames |-> NoCall]
    /\ overlapped = FALSE
    /\ ops = 0

\* the config most recently registered for metric m, if any
LastReg(m) ==
    IF reg_log[m] = << >> THEN NoConfig ELSE reg_log[m][Len(reg_log[m])]

\* AlertManager.add_alert, lines 30-31
add_alert(metric_name, config) ==
    /\ ops < MaxOps
    /\ alerts' = DictSet(alerts, metric_name, config)
    /\ reg_log' = [reg_log EXCEPT ![metric_name] = Append(@, config)]
    /\ ops' = ops + 1
    /\ UNCHANGED <<alert_history, pc, alert_info, result, hook_calls, call,
                   last_eval, overlapped, now, cacheVars, nlqVars, execVars, fanVars, sendVars,
                   metricVars, genVars>>

\* check_alert when the metric has no rule, lines 34-35: return None
CheckAlertNoRule_KeyError(t, metric_name, value) ==
    /\ result' = [result EXCEPT ![t] = [kind |-> "raised", info |-> NoInfo]]
    /\ UNCHANGED <<alert_history, pc, alert_info, hook_calls, overlapped>>

CheckAlertNoRule(t, metric_name, value) ==
    /\ result' = [result EXCEPT ![t] = None]
    /\ UNCHANGED <<alert_history, pc, alert_info, hook_calls, overlapped>>

\* AlertManager.check_alert, lines 33-58, up to its only suspension point
\* (the await of line 56); the code before the await runs without
\* interruption on the event loop
check_alert(t, metric_name, value) ==
    LET had_rule == metric_name \in DOMAIN alerts
        config == IF had_rule THEN alerts[metric_name] ELSE NoConfig
        should_alert == had_rule /\ ShouldAlert(config, value)
        info == AlertInfo(metric_name, value, config, now)
        this == [n |-> ops + 1, metric |-> metric_name, value |-> value,
                 had_rule |-> had_rule, config |-> config,
                 latest |-> LastReg(metric_name), fired |-> should_alert]
    IN  /\ ops < MaxOps
        /\ pc[t] = "idle"
        /\ ops' = ops + 1
        /\ call' = [call EXCEPT ![t] = this]
        /\ last_eval' = [last_eval EXCEPT ![metric_name] = this]
        /\ IF ~had_rule
           THEN CheckAlertNoRule(t, metric_name, value)
           ELSE IF should_alert
           THEN \* lines 47-56
                /\ alert_history' = HistoryAppend(alert_history, info)
                /\ hook_calls' = CallbackInvoke(hook_calls, info)
                /\ alert_info' = [alert_info EXCEPT ![t] = info]
                /\ pc' = [pc EXCEPT ![t] = "await_callback"]
                /\ overlapped' =
                      (overlapped \/ \E u \in Tasks \ {t} :
                          /\ pc[u] = "await_callback"
                          /\ call[u].metric = metric_name)
                /\ UNCHANGED result
           ELSE \* line 58
                /\ result' = [result EXCEPT ![t] = None]
                /\ UNCHANGED <<alert_history, pc, alert_info, hook_calls,
                               overlapped>>
        /\ UNCHANGED <<alerts, reg_log, now, cacheVars, nlqVars, execVars, fanVars, sendVars,
                   metricVars, genVars>>

\* the callback completes: line 57, return alert_info
callback_return(t) ==
    /\ pc[t] = "await_callback"
    /\ pc' = [pc EXCEPT ![t] = "idle"]
    /\ result' = [result EXCEPT ![t] = [kind |-> "event", info |-> alert_info[t]]]
    /\ UNCHANGED <<alerts, alert_history, alert_info, hook_calls, call,
                   reg_log, last_eval, overlapped, ops, now, cacheVars, nlqVars, execVars, fanVars, sendVars,
                   metricVars, genVars>>

\* a check_alert that takes its event back when the callback raises
callback_raise_Rollback(t) ==
    /\ pc[t] = "await_callback"
    /\ pc' = [pc EXCEPT ![t] = "idle"]
    /\ result' = [result EXCEPT ![t] = [kind |-> "raised", info |-> NoInfo]]
    /\ alert_history' = SubSeq(alert_history, 1, Len(alert_history) - 1)
    /\ UNCHANGED <<alerts, alert_info, hook_calls, call,
                   reg_log, last_eval, overlapped, ops, now, cacheVars, nlqVars, execVars, fanVars, sendVars,
                   metricVars, genVars>>

\* the callback raises: the exception leaves check_alert at line 56
callback_raise(t) ==
    /\ pc[t] = "await_callback"
    /\ pc' = [pc EXCEPT ![t] = "idle"]
    /\ result' = [result EXCEPT ![t] = [kind |-> "raised", info |-> NoInfo]]
    /\ UNCHANGED <<alerts, alert_history, alert_info, hook_calls, call,
                   reg_log, last_eval, overlapped, ops, now, cacheVars, nlqVars, execVars, fanVars, sendVars,
                   metricVars, genVars>>

(***************************************************************************)
(* The TTL cache of KubernetesAIAgent, explore/k8s-ai-agent-main.py.       *)
(* _cache_get and _cache_set take no lock.  The chat plugin runs every     *)
(* command with its own asyncio.run on the one shared agent                *)
(* (k8s-ai-errbot-plugin.py line 177), so two commands that are in         *)
(* progress at once run on two threads, and the statements of the two      *)
(* methods interleave.  A thread is modelled statement by statement.       *)
(***************************************************************************)
\* the cache types of _init_cache, lines 145-150
CacheTypes == {"metrics", "resources", "events", "analysis"}
\* cache_type arguments: two known cache types and an unknown one
CacheTypeArgs == {"analysis", "metrics", "custom"}
Keys == {"k1", "k2"}
CacheValues == {"v1", "v2"}
Threads == {1, 2}

NoOp == [n |-> 0, op |-> "", cache_type |-> "", key |-> "", value |-> ""]
\* line: the line of the return statement; at: the clock when it returned
NoRet == [line |-> 0, value |-> "None", at |-> 0]
NoSet == [value |-> "None", at |-> -1]
NoTimestamp == -1

\* f"{cache_type}:{key}", lines 168 and 183
TimestampKey(cache_type, key) == cache_type \o ":" \o key

\* dict.get(key): the value, or None when the key is missing
DictGet(d, k, none) == IF k \in DOMAIN d THEN d[k] ELSE none

\* (datetime.now() - timestamp).total_seconds() > self.cache_timeout, line 172
Expired_AtBoundary(t, stored, timeout) == t - stored >= timeout

Expired(t, stored, timeout) == t - stored > timeout

\* _init_cache, lines 143-152
InitCache ==
    /\ cache = [c \in CacheTypes |-> << >>]
    /\ cache_timestamps = << >>
    /\ cpc = [th \in Threads |-> "idle"]
    /\ cop = [th \in Threads |-> NoOp]
    /\ timestamp = [th \in Threads |-> NoTimestamp]
    /\ cret = [th \in Threads |-> NoRet]
    /\ last_set = [a \in CacheTypeArgs \X Keys |-> NoSet]
    /\ written = {}
    /\ cops = 0

Return(th, line, value) ==
    /\ cpc' = [cpc EXCEPT ![th] = "idle"]
    /\ cret' = [cret EXCEPT ![th] = [line |-> line, value |-> value, at |-> now]]

\* _cache_get, lines 165-170: the cache_type check and the timestamp lookup
cache_get_lookup(th, cache_type, key) ==
    /\ cops < MaxCacheOps
    /\ cpc[th] = "idle"
    /\ cops' = cops + 1
    /\ cop' = [cop EXCEPT ![th] = [n |-> cops + 1, op |-> "get",
                   cache_type |-> cache_type, key |-> key, value |-> ""]]
    /\ IF cache_type \notin DOMAIN cache
       THEN /\ Return(th, 166, "None")
            /\ timestamp' = [timestamp EXCEPT ![th] = NoTimestamp]
       ELSE LET ts == DictGet(cache_timestamps,
                              TimestampKey(cache_type, key), NoTimestamp)
            IN  /\ timestamp' = [timestamp EXCEPT ![th] = ts]
                /\ IF ts = NoTimestamp
                   THEN Return(th, 170, "None")
                   ELSE /\ cpc' = [cpc EXCEPT ![th] = "get_172"]
                        /\ UNCHANGED cret
    /\ UNCHANGED <<cache, cache_timestamps, cache_timeout, last_set, written,
                   now, alertVars, nlqVars, execVars, fanVars, sendVars,
                   metricVars, genVars>>

\* _cache_get, lines 172-173: the TTL check
cache_get_check(th) ==
    /\ cpc[th] = "get_172"
    /\ IF Expired(now, timestamp[th], cache_timeout)
       THEN Return(th, 173, "None")
       ELSE /\ cpc' = [cpc EXCEPT ![th] = "get_175"]
            /\ cret' = [cret EXCEPT ![th] = [line |-> 172, value |-> "None",
                                             at |-> now]]
    /\ UNCHANGED <<cache, cache_timestamps, cache_timeout, cop, timestamp,
                   last_set, written, cops, now, alertVars, nlqVars, execVars, fanVars, sendVars,
                   metricVars, genVars>>

\* _cache_get, line 175: return self.cache[cache_type].get(key)
cache_get_value(th) ==
    /\ cpc[th] = "get_175"
    /\ cpc' = [cpc EXCEPT ![th] = "idle"]
    /\ cret' = [cret EXCEPT ![th] =
                  [line |-> 175,
                   value |-> DictGet(cache[cop[th].cache_type], cop[th].key, "None"),
                   at |-> cret[th].at]]
    /\ UNCHANGED <<cache, cache_timestamps, cache_timeout, cop, timestamp,
                   last_set, written, cops, now, alertVars, nlqVars, execVars, fanVars, sendVars,
                   metricVars, genVars>>

\* _cache_set, lines 179-182: the cache_type check and the value store
cache_set_value(th, cache_type, key, value) ==
    /\ cops < MaxCacheOps
    /\ cpc[th] = "idle"
    /\ cops' = cops + 1
    /\ cop' = [cop EXCEPT ![th] = [n |-> cops + 1, op |-> "set",
                   cache_type |-> cache_type, key |-> key, value |-> value]]
    /\ IF cache_type \notin DOMAIN cache
       THEN /\ Return(th, 180, "None")
            /\ last_set' = [last_set EXCEPT ![<<cache_type, key>>] =
                               [value |-> value, at |-> now]]
            /\ UNCHANGED cache
       ELSE /\ cache' = [cache EXCEPT ![cache_type] = DictSet(@, key, value)]
            /\ cpc' = [cpc EXCEPT ![th] = "set_183"]
            /\ UNCHANGED <<cret, last_set>>
    /\ UNCHANGED <<cache_timestamps, cache_timeout, timestamp, written, now,
                   alertVars, nlqVars, execVars, fanVars, sendVars,
                   metricVars, genVars>>

\* _cache_set, line 183: the timestamp store
cache_set_timestamp(th) ==
    /\ cpc[th] = "set_183"
    /\ cache_timestamps' =
          DictSet(cache_timestamps,
                  TimestampKey(cop[th].cache_type, cop[th].key), now)
    /\ Return(th, 183, "None")
    /\ last_set' = [last_set EXCEPT ![<<cop[th].cache_type, cop[th].key>>] =
                       [value |-> cop[th].value, at |-> now]]
    /\ written' = written \cup
          {[cache_type |-> cop[th].cache_type, key |-> cop[th].key,
            value |-> cop[th].value, stored_at |-> now]}
    /\ UNCHANGED <<cache, cache_timeout, cop, timestamp, cops, now, alertVars, nlqVars, execVars, fanVars, sendVars,
                   metricVars, genVars>>

\* time passes
TickCache ==
    /\ now < MaxCacheTime
    /\ now' = now + 1
    /\ UNCHANGED <<alertVars, cacheVars, nlqVars, execVars, fanVars, sendVars,
                   metricVars, genVars>>

\* one caller: every cache call runs to completion before the next begins
NextCache ==
    \/ \E c \in CacheTypeArgs, k \in Keys : cache_get_lookup(1, c, k)
    \/ cache_get_check(1)
    \/ cache_get_value(1)
    \/ \E c \in CacheTypeArgs, k \in Keys, v \in CacheValues :
          cache_set_value(1, c, k, v)
    \/ cache_set_timestamp(1)
    \/ TickCache

\* callers on several threads
NextCacheThreads ==
    \/ \E th \in Threads, c \in CacheTypeArgs, k \in Keys :
          cache_get_lookup(th, c, k)
    \/ \E th \in Threads : cache_get_check(th)
    \/ \E th \in Threads : cache_get_value(th)
    \/ \E th \in Threads, c \in CacheTypeArgs, k \in Keys, v \in CacheValues :
          cache_set_value(th, c, k, v)
    \/ \E th \in Threads : cache_set_timestamp(th)
    \/ TickCache

(***************************************************************************)
(* process_natural_language_query of KubernetesAIAgent, lines 185-221.     *)
(* It is a coroutine: it is suspended at the awaits of lines 203 and 212   *)
(* and runs uninterrupted in between, so _cache_get and _cache_set, which  *)
(* await nothing, are each one step of it.                                 *)
(***************************************************************************)
\* values of the QueryType enumeration (lines 46-47)
QueryTypes == {"metrics", "health"}
\* str(params) of the parameters _analyze_query extracted
QueryParams == {"p1", "p2"}
\* what a handler returns: the text of the model's answer, which may be empty
Responses == {"r1", ""}

NoNlqCall == [n |-> 0, cache_key |-> "", live |-> FALSE, entry |-> "None",
              invoked |-> 0, stored |-> "None", stored_at |-> NoTimestamp]
NoNlqRet == [kind |-> "none", value |-> "None"]

\* hash(str(params)), line 206
Hash(params) == CASE params = "p1" -> 101 [] params = "p2" -> 102

\* f"{query_type}:{hash(str(params))}", line 206
CacheKey(query_type, params) == query_type \o ":" \o ToString(Hash(params))

\* _cache_get, lines 165-175, as one step
CacheGet(cache_type, key) ==
    IF cache_type \notin DOMAIN cache THEN "None"
    ELSE LET ts == DictGet(cache_timestamps, TimestampKey(cache_type, key),
                           NoTimestamp)
         IN  IF ts = NoTimestamp THEN "None"
             ELSE IF Expired(now, ts, cache_timeout) THEN "None"
             ELSE DictGet(cache[cache_type], key, "None")

\* _cache_set, lines 179-183, as one step: the two stores
CacheSetValue(cache_type, key, value) ==
    IF cache_type \notin DOMAIN cache THEN cache
    ELSE [cache EXCEPT ![cache_type] = DictSet(@, key, value)]

CacheSetTimestamp(cache_type, key) ==
    IF cache_type \notin DOMAIN cache THEN cache_timestamps
    ELSE DictSet(cache_timestamps, TimestampKey(cache_type, key), now)

\* `if cached_response:`, line 208: None and the empty string are false
Truthy(v) == v \notin {"None", ""}

InitNlq ==
    /\ nlq_pc = [t \in Tasks |-> "idle"]
    /\ nlq_call = [t \in Tasks |-> NoNlqCall]
    /\ nlq_ret = [t \in Tasks |-> NoNlqRet]
    /\ nlq_ops = 0

\* lines 203-212: the analysis has returned (query_type, params); the cache
\* lookup; on a hit the return of line 209, otherwise the call of the handler
process_natural_language_query(t, query_type, params) ==
    LET cache_key == CacheKey(query_type, params)
        cached_response == CacheGet("analysis", cache_key)
        ts == DictGet(cache_timestamps, TimestampKey("analysis", cache_key),
                      NoTimestamp)
        this == [n |-> nlq_ops + 1, cache_key |-> cache_key,
                 live |-> /\ cache_key \in DOMAIN cache["analysis"]
                          /\ ts # NoTimestamp
                          /\ now - ts <= cache_timeout,
                 entry |-> DictGet(cache["analysis"], cache_key, "None"),
                 invoked |-> IF Truthy(cached_response) THEN 0 ELSE 1,
                 stored |-> "None", stored_at |-> NoTimestamp]
    IN  /\ nlq_ops < MaxQueries
        /\ nlq_pc[t] = "idle"
        /\ nlq_ops' = nlq_ops + 1
        /\ nlq_call' = [nlq_call EXCEPT ![t] = this]
        /\ IF Truthy(cached_response)
           THEN /\ nlq_ret' = [nlq_ret EXCEPT ![t] =
                                 [kind |-> "response", value |-> cached_response]]
                /\ UNCHANGED nlq_pc
           ELSE /\ nlq_pc' = [nlq_pc EXCEPT ![t] = "await_212"]
                /\ nlq_ret' = [nlq_ret EXCEPT ![t] = NoNlqRet]
        /\ UNCHANGED <<alertVars, cacheVars, execVars, fanVars, sendVars, now,
                   metricVars, genVars>>

\* line 203 raises (the analysis is not JSON, or names no QueryType): the
\* handler of lines 219-221 returns the error text
analyze_query_raise(t) ==
    /\ nlq_ops < MaxQueries
    /\ nlq_pc[t] = "idle"
    /\ nlq_ops' = nlq_ops + 1
    /\ nlq_call' = [nlq_call EXCEPT ![t] =
                      [NoNlqCall EXCEPT !.n = nlq_ops + 1]]
    /\ nlq_ret' = [nlq_ret EXCEPT ![t] = [kind |-> "error", value |-> "None"]]
    /\ UNCHANGED <<nlq_pc, alertVars, cacheVars, execVars, fanVars, sendVars, now,
                   metricVars, genVars>>

\* lines 212-217: the handler returns response; it is cached and returned
process_by_type_return(t, response) ==
    /\ nlq_pc[t] = "await_212"
    /\ nlq_pc' = [nlq_pc EXCEPT ![t] = "idle"]
    /\ cache' = CacheSetValue("analysis", nlq_call[t].cache_key, response)
    /\ cache_timestamps' = CacheSetTimestamp("analysis", nlq_call[t].cache_key)
    /\ nlq_call' = [nlq_call EXCEPT
          ![t].stored = DictGet(cache'["analysis"], nlq_call[t].cache_key, "None"),
          ![t].stored_at = DictGet(cache_timestamps',
                                   TimestampKey("analysis", nlq_call[t].cache_key),
                                   NoTimestamp)]
    /\ nlq_ret' = [nlq_ret EXCEPT ![t] = [kind |-> "response", value |-> response]]
    /\ UNCHANGED <<nlq_ops, cache_timeout, cpc, cop, timestamp, cret, last_set,
                   written, cops, alertVars, execVars, fanVars, sendVars, now,
                   metricVars, genVars>>

\* a query whose handler raised and whose error text is cached like a response
process_by_type_raise_Cached(t) ==
    /\ nlq_pc[t] = "await_212"
    /\ nlq_pc' = [nlq_pc EXCEPT ![t] = "idle"]
    /\ cache' = CacheSetValue("analysis", nlq_call[t].cache_key, "error")
    /\ cache_timestamps' = CacheSetTimestamp("analysis", nlq_call[t].cache_key)
    /\ nlq_ret' = [nlq_ret EXCEPT ![t] = [kind |-> "error", value |-> "None"]]
    /\ UNCHANGED <<nlq_call, nlq_ops, cache_timeout, cpc, cop, timestamp, cret,
                   last_set, written, cops, alertVars, execVars, fanVars,
                   sendVars, now, metricVars, genVars>>

\* line 212 raises: the handler of lines 219-221 returns the error text
process_by_type_raise(t) ==
    /\ nlq_pc[t] = "await_212"
    /\ nlq_pc' = [nlq_pc EXCEPT ![t] = "idle"]
    /\ nlq_ret' = [nlq_ret EXCEPT ![t] = [kind |-> "error", value |-> "None"]]
    /\ UNCHANGED <<nlq_call, nlq_ops, alertVars, cacheVars, execVars, fanVars, sendVars, now,
                   metricVars, genVars>>

NextNlq ==
    \/ \E t \in Tasks, q \in QueryTypes, p \in QueryParams :
          process_natural_language_query(t, q, p)
    \/ \E t \in Tasks : analyze_query_raise(t)
    \/ \E t \in Tasks, r \in Responses : process_by_type_return(t, r)
    \/ \E t \in Tasks : process_by_type_raise(t)
    \/ TickCache

(***************************************************************************)
(* QueryExecutor, explore/dashboards/enhanced-dashboard-fetcher.py.        *)
(* The monitoring backend is the environment: it holds time series         *)
(* (collector_series, collector_point) and answers query_time_series with  *)
(* them or with an exception.  Timestamps are the isoformat() strings of   *)
(* UTC datetimes, whose string order is their time order; they are         *)
(* represented by the number of their alignment bucket.                    *)
(***************************************************************************)
Timestamps == {1, 2}
\* TypedValue of a point: a double, an int64, a distribution (v: its mean)
\* or another kind of value (bool, string)
TypedValues == {[kind |-> "double_value", v |-> 1],
                [kind |-> "int64_value", v |-> 3],
                [kind |-> "distribution_value", v |-> 2],
                [kind |-> "string_value", v |-> 0]}
Points == [timestamp : Timestamps, value : TypedValues]
\* the value of the label pod_name, "None" when the label is missing; the
\* kubernetes.io metrics carry the pod name as a resource label
MetricLabels == {[pod_name |-> "None"]}
ResourceLabels == {[pod_name |-> "a"], [pod_name |-> "b"], [pod_name |-> "None"]}
Reducers == {"REDUCE_MEAN", "REDUCE_MAX", "REDUCE_MIN", "REDUCE_SUM"}
\* QueryOptions (lines 39-48): a well-formed interval and alignment period
\* with every reducer and grouping, and the two malformed options
QueryOptions ==
    [start_time : {0}, end_time : {1}, alignment_period : {"60s"},
     cross_series_reducer : Reducers \cup {"None"},
     group_by_fields : {<< >>, <<"pod_name">>}]
    \cup
    [start_time : {1}, end_time : {1}, alignment_period : {"60s"},
     cross_series_reducer : {"None"}, group_by_fields : {<< >>}]
    \cup
    [start_time : {0}, end_time : {1}, alignment_period : {"0s"},
     cross_series_reducer : {"None"}, group_by_fields : {<< >>}]

NoOptions == [start_time |-> 0, end_time |-> 0, alignment_period |-> "",
              cross_series_reducer |-> "None", group_by_fields |-> << >>]
\* kind: "returned" or "raised"; series: the returned list; printed: line 172
\* ran; fetches: number of query_time_series calls; fetch: how the call of
\* line 168 ended, "ok" or "failed"
NoExecRet == [kind |-> "none", series |-> << >>, printed |-> FALSE,
              fetches |-> 0, fetch |-> "none"]

\* python values: a number is num/den
Number(num, den) == [type |-> "number", num |-> num, den |-> den]
PyNone == [type |-> "NoneType", num |-> 0, den |-> 1]
TypeError == [type |-> "TypeError", num |-> 0, den |-> 1]

\* _extract_point_value, lines 223-235
extract_point_value(value) ==
    IF value.kind = "double_value" THEN Number(value.v, 1)
    ELSE IF value.kind = "int64_value" THEN Number(value.v, 1)
    ELSE IF value.kind = "distribution_value"
    THEN [type |-> "dict", num |-> value.v, den |-> 1]
    ELSE PyNone

\* isinstance(point['value'], (int, float)), line 254
IsNumber_Any(value) == TRUE

IsNumber(value) == value.type = "number"

RECURSIVE SumSeq(_)
SumSeq(values) ==
    IF values = << >> THEN 0 ELSE Head(values).num + SumSeq(Tail(values))

\* sorted(set(...)), lines 243-247
RECURSIVE Sorted(_)
Sorted(S) ==
    IF S = {} THEN << >>
    ELSE LET m == CHOOSE x \in S : \A y \in S : x <= y
         IN  <<m>> \o Sorted(S \ {m})

\* the points of all series, in the order of the nested comprehension
RECURSIVE AllPoints(_)
AllPoints(time_series_data) ==
    IF time_series_data = << >> THEN << >>
    ELSE Head(time_series_data).points \o AllPoints(Tail(time_series_data))

\* _reduce_values, lines 269-282; sum() and max() of a list that holds a
\* dict or None raise TypeError
reduce_values(values, reducer) ==
    IF values = << >> THEN PyNone
    ELSE IF \E i \in DOMAIN values : values[i].type # "number" THEN TypeError
    ELSE LET nums == {values[i].num : i \in DOMAIN values}
             max == CHOOSE x \in nums : \A y \in nums : x >= y
             min == CHOOSE x \in nums : \A y \in nums : x <= y
         IN  IF reducer = "REDUCE_MEAN"
             THEN Number(SumSeq(values), Len(values))
             ELSE IF reducer = "REDUCE_MAX" THEN Number(max, 1)
             ELSE IF reducer = "REDUCE_MIN" THEN Number(min, 1)
             ELSE IF reducer = "REDUCE_SUM" THEN Number(SumSeq(values), 1)
             ELSE PyNone

\* the list comprehension of lines 250-255
values_at_AnyTimestamp(time_series_data, ts) ==
    LET test(point) == IsNumber(point.value)
        selected == SelectSeq(AllPoints(time_series_data), test)
    IN  [i \in DOMAIN selected |-> selected[i].value]

values_at(time_series_data, ts) ==
    LET test(point) == point.timestamp = ts /\ IsNumber(point.value)
        selected == SelectSeq(AllPoints(time_series_data), test)
    IN  [i \in DOMAIN selected |-> selected[i].value]

\* _apply_cross_series_reduction, lines 237-267
apply_cross_series_reduction(time_series_data, reducer) ==
    IF time_series_data = << >> THEN << >>
    ELSE LET all == AllPoints(time_series_data)
             timestamps == Sorted({all[i].timestamp : i \in DOMAIN all})
             candidates ==
                 [i \in DOMAIN timestamps |->
                     [timestamp |-> timestamps[i],
                      value |-> reduce_values(
                                    values_at(time_series_data, timestamps[i]),
                                    reducer)]]
             has_values(point) ==
                 values_at(time_series_data, point.timestamp) # << >>
         IN  << [metadata |-> [reducer |-> reducer,
                               metric |-> [pod_name |-> "None"],
                               resource |-> [pod_name |-> "None"],
                               group_key |-> << >>],
                 points |-> SelectSeq(candidates, has_values)] >>

\* _process_time_series_response, lines 175-221
process_time_series_response(response, opts) ==
    LET series(time_series) ==
            [metadata |->
                [reducer |-> "None",
                 metric |-> time_series.metric,
                 resource |-> time_series.resource,
                 group_key |->
                     [j \in DOMAIN opts.group_by_fields |->
                         time_series.metric[opts.group_by_fields[j]]]],
             points |->
                [j \in DOMAIN time_series.points |->
                    [timestamp |-> time_series.points[j].timestamp,
                     value |-> extract_point_value(time_series.points[j].value)]]]
        time_series_data == [i \in DOMAIN response |-> series(response[i])]
    IN  IF opts.cross_series_reducer # "None"
        THEN apply_cross_series_reduction(time_series_data,
                                          opts.cross_series_reducer)
        ELSE time_series_data

\* an exception left the processing of the response
Raised(time_series_data) ==
    \E i \in DOMAIN time_series_data :
        \E j \in DOMAIN time_series_data[i].points :
            time_series_data[i].points[j].value.type = "TypeError"

\* the except clause of execute_query, lines 171-173
OnException_Reraise(ret) == [ret EXCEPT !.kind = "raised"]

OnException(ret) ==
    [ret EXCEPT !.kind = "returned", !.series = << >>, !.printed = TRUE]

RECURSIVE CountPoints(_)
CountPoints(response) ==
    IF response = << >> THEN 0
    ELSE Len(Head(response).points) + CountPoints(Tail(response))

InitExec ==
    /\ collector = << >>
    /\ exec_pc = "idle"
    /\ options = NoOptions
    /\ exec_ret = NoExecRet

\* the backend has a further time series, with its first point
collector_series(metric, resource, point) ==
    /\ exec_pc = "idle"
    /\ CountPoints(collector) < MaxPoints
    /\ collector' = Append(collector, [metric |-> metric, resource |-> resource,
                                       points |-> <<point>>])
    /\ UNCHANGED <<exec_pc, options, exec_ret, alertVars, cacheVars, nlqVars,
                   fanVars, sendVars, now, metricVars, genVars>>

\* the backend has a further point of its last time series
collector_point(point) ==
    /\ exec_pc = "idle"
    /\ collector # << >>
    /\ CountPoints(collector) < MaxPoints
    /\ collector' = [collector EXCEPT ![Len(collector)].points =
                        Append(@, point)]
    /\ UNCHANGED <<exec_pc, options, exec_ret, alertVars, cacheVars, nlqVars,
                   fanVars, sendVars, now, metricVars, genVars>>

\* execute_query, lines 152-168: the request is built and sent
execute_query(opts) ==
    /\ exec_pc = "idle"
    /\ exec_pc' = "await_168"
    /\ options' = opts
    /\ exec_ret' = [NoExecRet EXCEPT !.fetches = 1]
    /\ UNCHANGED <<collector, alertVars, cacheVars, nlqVars, fanVars, sendVars, now,
                   metricVars, genVars>>

\* line 168 returns the response; lines 169 and 171-173
query_time_series_return ==
    /\ exec_pc = "await_168"
    /\ exec_pc' = "done"
    /\ LET time_series_data == process_time_series_response(collector, options)
           ret == [exec_ret EXCEPT !.fetch = "ok"]
       IN  exec_ret' = IF Raised(time_series_data)
                       THEN OnException(ret)
                       ELSE [ret EXCEPT !.kind = "returned",
                                        !.series = time_series_data]
    /\ UNCHANGED <<collector, options, alertVars, cacheVars, nlqVars, fanVars, sendVars, now,
                   metricVars, genVars>>

\* the request or the fetch raises (lines 153-168); lines 171-173
query_time_series_raise ==
    /\ exec_pc = "await_168"
    /\ exec_pc' = "done"
    /\ exec_ret' = OnException([exec_ret EXCEPT !.fetch = "failed"])
    /\ UNCHANGED <<collector, options, alertVars, cacheVars, nlqVars, fanVars, sendVars, now,
                   metricVars, genVars>>

NextExec ==
    \/ \E m \in MetricLabels, r \in ResourceLabels, p \in Points :
          collector_series(m, r, p)
    \/ \E p \in Points : collector_point(p)
    \/ \E o \in QueryOptions : execute_query(o)
    \/ query_time_series_return
    \/ query_time_series_raise

(***************************************************************************)
(* The fan-out drivers: EnhancedDashboardFetcher.execute_dashboard_queries *)
(* (enhanced-dashboard-fetcher.py lines 320-355) and                       *)
(* EnhancedKubernetesMonitoringAgent.monitor (advanced-k8s-monitoring-     *)
(* agent.py lines 241-264).  Both hand their awaitables to asyncio.gather  *)
(* without return_exceptions: gather returns the list of results when all  *)
(* awaitables have returned, and raises the first exception as soon as one *)
(* awaitable raises, while the others keep running.                        *)
(***************************************************************************)
Titles == {"w1", "w2"}
\* a parsed widget: its title and whether it has the key 'queries'
Widgets == [title : Titles, has_queries : BOOLEAN]
\* the awaitables of monitor, lines 244-254
MonitorTasks == <<"cluster_info", "logs", "cpu", "memory">>
\* what one query of a widget ended with: execute_query returned series
\* ("data"), returned [] after a failed fetch ("empty"), or raised
\* ("raised", caught at line 335)
QueryOutcomes == {"data", "empty", "raised"}

Task(title, has_queries) ==
    [title |-> title, has_queries |-> has_queries, state |-> "pending",
     result |-> "None"]

\* process_widget, lines 325-338: the result of a widget with one query
process_widget(widget, outcome) ==
    IF widget.has_queries
    THEN IF outcome = "raised" THEN "no entry" ELSE outcome
    ELSE "None"

\* lines 350-353 and 259-264: the results that are not None, by title
RECURSIVE Combine(_, _)
Combine(ts, acc) ==
    IF ts = << >> THEN acc
    ELSE Combine(Tail(ts),
                 IF Head(ts).result # "None"
                 THEN DictSet(acc, Head(ts).title, Head(ts).result)
                 ELSE acc)

InitFan ==
    /\ driver = "none"
    /\ tasks = << >>
    /\ fan_pc = "idle"
    /\ results = << >>

\* execute_dashboard_queries, lines 322-347: one process_widget per widget
execute_dashboard_queries(widgets) ==
    /\ fan_pc = "idle"
    /\ driver' = "dashboard"
    /\ tasks' = [i \in DOMAIN widgets |->
                    Task(widgets[i].title, widgets[i].has_queries)]
    /\ fan_pc' = "await_gather"
    /\ UNCHANGED <<results, alertVars, cacheVars, nlqVars, execVars, sendVars, now,
                   metricVars, genVars>>

\* process_widget of widget i runs to its return, lines 325-338
process_widget_return(i, outcome) ==
    /\ driver = "dashboard"
    /\ i \in DOMAIN tasks
    /\ tasks[i].state = "pending"
    /\ tasks[i].has_queries \/ outcome = "data"
    /\ tasks' = [tasks EXCEPT ![i].state = "done",
                              ![i].result = process_widget(tasks[i], outcome)]
    /\ UNCHANGED <<driver, fan_pc, results, alertVars, cacheVars, nlqVars,
                   execVars, sendVars, now, metricVars, genVars>>

\* monitor, lines 244-256: the awaitables are handed to gather
monitor ==
    /\ fan_pc = "idle"
    /\ driver' = "monitor"
    /\ tasks' = [i \in DOMAIN MonitorTasks |-> Task(MonitorTasks[i], TRUE)]
    /\ fan_pc' = "await_gather"
    /\ UNCHANGED <<results, alertVars, cacheVars, nlqVars, execVars, sendVars, now,
                   metricVars, genVars>>

\* an awaitable of monitor returns its data
task_return(i) ==
    /\ driver = "monitor"
    /\ i \in DOMAIN tasks
    /\ tasks[i].state = "pending"
    /\ tasks' = [tasks EXCEPT ![i].state = "done", ![i].result = "data"]
    /\ UNCHANGED <<driver, fan_pc, results, alertVars, cacheVars, nlqVars,
                   execVars, sendVars, now, metricVars, genVars>>

\* an awaitable of monitor raises
task_raise(i) ==
    /\ driver = "monitor"
    /\ i \in DOMAIN tasks
    /\ tasks[i].state = "pending"
    /\ tasks' = [tasks EXCEPT ![i].state = "raised"]
    /\ UNCHANGED <<driver, fan_pc, results, alertVars, cacheVars, nlqVars,
                   execVars, sendVars, now, metricVars, genVars>>

\* gather returns: every awaitable has returned; lines 350-355, 259-264
gather_return ==
    /\ fan_pc = "await_gather"
    /\ \A i \in DOMAIN tasks : tasks[i].state = "done"
    /\ results' = Combine(tasks, << >>)
    /\ fan_pc' = "returned"
    /\ UNCHANGED <<driver, tasks, alertVars, cacheVars, nlqVars, execVars, sendVars, now,
                   metricVars, genVars>>

\* gather raises the exception of an awaitable; the driver has no handler
\* around line 256 and raises it to its caller
gather_raise ==
    /\ fan_pc = "await_gather"
    /\ \E i \in DOMAIN tasks : tasks[i].state = "raised"
    /\ fan_pc' = "raised"
    /\ UNCHANGED <<driver, tasks, results, alertVars, cacheVars, nlqVars,
                   execVars, sendVars, now, metricVars, genVars>>

NextFan ==
    \/ \E n \in 1..MaxWidgets : \E widgets \in [1..n -> Widgets] :
          execute_dashboard_queries(widgets)
    \/ \E i \in 1..MaxWidgets, o \in QueryOutcomes : process_widget_return(i, o)
    \/ monitor
    \/ \E i \in DOMAIN MonitorTasks : task_return(i)
    \/ \E i \in DOMAIN MonitorTasks : task_raise(i)
    \/ gather_return
    \/ gather_raise

(***************************************************************************)
(* Alert delivery: AlertManager.send_alerts, _send_to_channels and         *)
(* _send_slack_alert (enhanced-stackdriver-ai-agent.py lines 384-419), and *)
(* the external calls of the program with the timeout their caller passes. *)
(* _is_duplicate, _record_sent_alert, _send_email_alert and                *)
(* _send_pagerduty_alert are called but not part of the source; they       *)
(* follow the specification: the key of an alert is (metric or pattern     *)
(* identity, service, severity), an alert is a duplicate when its key is   *)
(* recorded, and a channel send succeeds or fails.                         *)
(***************************************************************************)
\* channel['type'] of a configured channel (lines 399-403)
ChannelTypes == {"slack", "email", "pagerduty"}

\* self.config.notification_channels: a list of channels
NotificationChannels ==
    UNION {[1..n -> ChannelTypes] : n \in 0..MaxChannels}

\* response.status of the webhook (line 418)
Statuses == {200, 500}

\* the timeout argument of self.monitoring_client.query_time_series(request)
\* at line 168 of the dashboard fetcher: none is passed, and QueryOptions
\* (lines 39-48) has no field for one
query_time_series_timeout(opts) == "None"

\* the timeout argument of aiohttp.ClientSession() and of
\* session.post(webhook_url, json=message), lines 416-417: none is passed
session_post_timeout(channel) == "None"

\* the deduplication key of an alert
DedupKey(alert) == <<alert.title, alert.service, alert.severity>>

\* self._is_duplicate(alert), line 389
is_duplicate(sent, alert) == DedupKey(alert) \in sent

\* self._record_sent_alert(alert), line 391
record_sent_alert(sent, alert) == sent \cup {DedupKey(alert)}

\* the await a channel of the given type is sent at (lines 400, 402, 404)
AwaitLine(type) ==
    CASE type = "slack" -> "await_417"
      [] type = "email" -> "await_402"
      [] type = "pagerduty" -> "await_404"

\* the channel the loop of line 397 goes on with after channel i raised:
\* the handler of lines 405-406 is inside the loop
NextChannel_Break(channels, i) == Len(channels) + 1

NextChannel(channels, i) == i + 1

\* line 391 follows line 390 unconditionally: the alert is recorded
\* whatever its sends did
ShouldRecord_OnSuccess(any_ok) == any_ok

ShouldRecord(any_ok) == TRUE

\* the loops of lines 388 and 397 from alert a, channel i on, up to the
\* next await; i = 0 stands for line 389
RECURSIVE send_loop(_, _, _, _, _, _, _)
send_loop(alert_list, channels, att, a, i, sent, rec) ==
    IF a > Len(alert_list)
    THEN [pc |-> "done", a |-> a, i |-> 0, sent |-> sent, rec |-> rec]
    ELSE IF i = 0
    THEN IF is_duplicate(sent, alert_list[a])
         THEN send_loop(alert_list, channels, att, a + 1, 0, sent, rec)
         ELSE send_loop(alert_list, channels, att, a, 1, sent, rec)
    ELSE IF i > Len(channels)
    THEN IF ShouldRecord(\E k \in DOMAIN att : att[k].a = a /\ att[k].ok)
         THEN send_loop(alert_list, channels, att, a + 1, 0,
                        record_sent_alert(sent, alert_list[a]), Append(rec, a))
         ELSE send_loop(alert_list, channels, att, a + 1, 0, sent, rec)
    ELSE [pc |-> AwaitLine(channels[i]), a |-> a, i |-> i, sent |-> sent,
          rec |-> rec]

\* AlertManager.__init__, lines 379-382
InitSend ==
    /\ notification_channels = << >>
    /\ batch = << >>
    /\ send_pc = "idle"
    /\ send_a = 0
    /\ send_i = 0
    /\ sent_alerts = {}
    /\ send_log = << >>
    /\ attempts = << >>
    /\ recorded = << >>

\* the send variables after the loops ran on from (a, i)
SendResume(alert_list, channels, att, a, i) ==
    LET s == send_loop(alert_list, channels, att, a, i, sent_alerts, recorded)
    IN  /\ send_pc' = s.pc
        /\ send_a' = s.a
        /\ send_i' = s.i
        /\ sent_alerts' = s.sent
        /\ recorded' = s.rec

\* a call of send_alerts(alerts) on a manager configured with channels,
\* lines 388-391, up to the first channel send
SendCall(alert_list, channels) ==
    /\ send_pc = "idle"
    /\ notification_channels' = channels
    /\ batch' = alert_list
    /\ SendResume(alert_list, channels, attempts, 1, 0)
    /\ UNCHANGED <<send_log, attempts>>

\* the send to the current channel has completed: with ok it returned,
\* otherwise it raised error, which lines 405-406 log; the loops go on
SendCompleted(ok, error) ==
    LET att == Append(attempts, [a |-> send_a, i |-> send_i, ok |-> ok])
    IN  /\ attempts' = att
        /\ send_log' = IF ok THEN send_log ELSE Append(send_log, error)
        /\ SendResume(batch, notification_channels, att, send_a,
                      IF ok THEN send_i + 1
                      ELSE NextChannel(notification_channels, send_i))
        /\ UNCHANGED <<notification_channels, batch>>

(***************************************************************************)
(* Alerts, and the prioritizer of AdvancedStackdriverAIAgent               *)
(* (enhanced-stackdriver-ai-agent.py lines 254-285 and 329-372).  An alert *)
(* is a dict; a key it does not hold is Absent (NoService for 'service').  *)
(* Scores are exact fractions num/den with den > 0.                        *)
(***************************************************************************)
\* the AlertSeverity values, lines 21-25
Severities == {"CRITICAL", "HIGH", "MEDIUM", "LOW", "INFO"}

Absent == [type |-> "absent", num |-> 0, den |-> 1]
NoService == ""

\* the 'service_criticality' mapping of the configuration (line 368): one
\* service with a multiplier of 1.5; other services have none
service_criticality == [api |-> Number(3, 2)]

\* alerts that differ in everything the score depends on
ScoredAlerts ==
    [title : {"m1"}, fired_at : {1},
     severity : Severities,
     impact_score : {Absent, Number(0, 1), Number(1, 2), Number(1, 1)},
     frequency : {Absent, Number(0, 1), Number(50, 1), Number(100, 1),
                  Number(250, 1)},
     service : {NoService, "api", "web"}]

\* alerts that differ in their identity, severity and time of firing
KeyedAlerts ==
    [title : {"m1", "m2"}, fired_at : {1, 2},
     severity : {"HIGH", "LOW"},
     impact_score : {Absent},
     frequency : {Absent},
     service : {"api"}]

\* the batches generate_alerts is given
Batches ==
    {<<a>> : a \in ScoredAlerts}
        \cup UNION {[1..n -> KeyedAlerts] : n \in 0..MaxBatch}

Mul(x, y) == Number(x.num * y.num, x.den * y.den)
Less(x, y) == x.num * y.den < y.num * x.den
Equal(x, y) == x.num * y.den = y.num * x.den

\* 1 + x
OnePlus(x) == Number(x.den + x.num, x.den)

\* min(x, 1), line 364
MinOne_NoCap(x) == x

MinOne(x) == IF x.num >= x.den THEN Number(1, 1) ELSE x

\* _calculate_alert_priority, lines 344-372
calculate_alert_priority(alert) ==
    LET severity_scores == [CRITICAL |-> Number(10, 10), HIGH |-> Number(8, 10),
                            MEDIUM |-> Number(6, 10), LOW |-> Number(4, 10),
                            INFO |-> Number(2, 10)]
        base_score == DictGet(severity_scores, alert.severity, Number(2, 10))
        with_impact == IF alert.impact_score # Absent
                       THEN Mul(base_score, OnePlus(alert.impact_score))
                       ELSE base_score
        with_frequency ==
            IF alert.frequency # Absent
            THEN Mul(with_impact,
                     OnePlus(MinOne(Number(alert.frequency.num,
                                           alert.frequency.den * 100))))
            ELSE with_impact
    IN  IF alert.service # NoService
        THEN Mul(with_frequency,
                 DictGet(service_criticality, alert.service, Number(1, 1)))
        ELSE with_frequency

\* self._deduplicate_alerts(alerts), line 276: the first alert of every key
RECURSIVE deduplicate_alerts_KeepLast(_)
deduplicate_alerts_KeepLast(alert_list) ==
    IF alert_list = << >> THEN << >>
    ELSE IF \E j \in 2..Len(alert_list) : DedupKey(alert_list[j]) = DedupKey(Head(alert_list))
         THEN deduplicate_alerts_KeepLast(Tail(alert_list))
         ELSE <<Head(alert_list)>> \o deduplicate_alerts_KeepLast(Tail(alert_list))

RECURSIVE deduplicate_alerts(_)
deduplicate_alerts(alert_list) ==
    IF alert_list = << >> THEN << >>
    ELSE LET n == Len(alert_list)
             front == deduplicate_alerts(SubSeq(alert_list, 1, n - 1))
         IN  IF \E j \in 1..(n - 1) : DedupKey(alert_list[j]) = DedupKey(alert_list[n])
             THEN front
             ELSE Append(front, alert_list[n])

\* scored_alerts.sort(reverse=True), line 340, of a list the sort can
\* compare: the (score, alert) tuples by descending score
RECURSIVE SortDescending(_)
SortDescending(scored) ==
    IF scored = << >> THEN << >>
    ELSE LET k == CHOOSE k \in DOMAIN scored :
                     \A j \in DOMAIN scored :
                         ~Less(scored[k].score, scored[j].score)
         IN  <<scored[k]>> \o
             SortDescending([j \in 1..(Len(scored) - 1) |->
                                IF j < k THEN scored[j] ELSE scored[j + 1]])

\* the (score, alert) tuples of lines 334-337
ScoredAlertList(alert_list) ==
    [i \in DOMAIN alert_list |->
        [score |-> calculate_alert_priority(alert_list[i]),
         alert |-> alert_list[i]]]

\* _prioritize_alerts, lines 329-342.  The list holds (score, alert)
\* tuples; comparing two tuples of equal score compares their alerts, and
\* the comparison of two different dicts raises TypeError
prioritize_alerts(alert_list) ==
    LET scored == ScoredAlertList(alert_list)
        sorted == SortDescending(scored)
    IN  IF \E i, j \in DOMAIN alert_list :
              /\ i # j
              /\ Equal(scored[i].score, scored[j].score)
              /\ alert_list[i] # alert_list[j]
        THEN [kind |-> "TypeError", alerts |-> << >>]
        ELSE [kind |-> "ok", alerts |-> [i \in DOMAIN sorted |-> sorted[i].alert]]

NoGenRet == [kind |-> "none", alerts |-> << >>]

InitGen ==
    /\ gen_pc = "idle"
    /\ gen_in = << >>
    /\ unique_alerts = << >>
    /\ scored_alerts = << >>
    /\ gen_ret = NoGenRet

\* AlertManager.send_alerts, lines 384-391, up to the first channel send
send_alerts(alert_list, channels) ==
    /\ gen_pc = "idle"
    /\ SendCall(alert_list, channels)
    /\ UNCHANGED <<alertVars, cacheVars, nlqVars, execVars, fanVars,
                   metricVars, genVars, now>>

\* session.post returns a response, lines 417-419; a status other than 200
\* raises, caught and logged at lines 405-406
session_post_return(status) ==
    /\ send_pc = "await_417"
    /\ SendCompleted(status = 200, "Slack API error")
    /\ UNCHANGED <<alertVars, cacheVars, nlqVars, execVars, fanVars,
                   metricVars, genVars, now>>

\* session.post raises (connection error), caught and logged at lines
\* 405-406
session_post_raise ==
    /\ send_pc = "await_417"
    /\ SendCompleted(FALSE, "ClientError")
    /\ UNCHANGED <<alertVars, cacheVars, nlqVars, execVars, fanVars,
                   metricVars, genVars, now>>

\* _send_email_alert or _send_pagerduty_alert returns, lines 402 and 404
channel_send_return ==
    /\ send_pc \in {"await_402", "await_404"}
    /\ SendCompleted(TRUE, "")
    /\ UNCHANGED <<alertVars, cacheVars, nlqVars, execVars, fanVars,
                   metricVars, genVars, now>>

\* _send_email_alert or _send_pagerduty_alert raises, caught and logged at
\* lines 405-406
channel_send_raise ==
    /\ send_pc \in {"await_402", "await_404"}
    /\ SendCompleted(FALSE, "NotificationError")
    /\ UNCHANGED <<alertVars, cacheVars, nlqVars, execVars, fanVars,
                   metricVars, genVars, now>>

\* generate_alerts, lines 275-285, for the alerts built at lines 261-273:
\* deduplicate, prioritize and hand the result to send_alerts; an exception
\* is logged and [] returned (lines 283-285)
generate_alerts(alert_list, channels) ==
    LET unique == deduplicate_alerts(alert_list)
        prioritized == prioritize_alerts(unique)
    IN  /\ gen_pc = "idle"
        /\ send_pc = "idle"
        /\ gen_in' = alert_list
        /\ unique_alerts' = unique
        /\ scored_alerts' = ScoredAlertList(unique)
        /\ IF prioritized.kind = "TypeError"
           THEN /\ gen_pc' = "done"
                /\ gen_ret' = [kind |-> "error", alerts |-> << >>]
                /\ UNCHANGED sendVars
           ELSE /\ SendCall(prioritized.alerts, channels)
                /\ gen_pc' = IF send_pc' = "done" THEN "done" ELSE "await_280"
                /\ gen_ret' = IF send_pc' = "done"
                              THEN [kind |-> "returned",
                                    alerts |-> prioritized.alerts]
                              ELSE NoGenRet
        /\ UNCHANGED <<alertVars, cacheVars, nlqVars, execVars, fanVars,
                       metricVars, now>>

\* send_alerts has returned: line 282
generate_alerts_return ==
    /\ gen_pc = "await_280"
    /\ send_pc = "done"
    /\ gen_pc' = "done"
    /\ gen_ret' = [kind |-> "returned", alerts |-> batch]
    /\ UNCHANGED <<gen_in, unique_alerts, scored_alerts, alertVars, cacheVars, nlqVars,
                   execVars, fanVars, sendVars, metricVars, now>>

\* the prioritizer, on a manager with no channel or one slack channel
NextPrioritize ==
    \/ \E alert_list \in Batches, channels \in {<< >>, <<"slack">>} :
          generate_alerts(alert_list, channels)
    \/ \E s \in Statuses : session_post_return(s)
    \/ session_post_raise
    \/ generate_alerts_return

\* the delivery of a batch of alerts with two different keys
NextSend ==
    \/ \E alert_list \in UNION {[1..n -> {a \in KeyedAlerts : a.fired_at = 1 /\ a.severity = "HIGH"}] :
                               n \in 0..MaxBatch},
          channels \in NotificationChannels : send_alerts(alert_list, channels)
    \/ \E s \in Statuses : session_post_return(s)
    \/ session_post_raise
    \/ channel_send_return
    \/ channel_send_raise

\* the external calls: a fetch of the QueryExecutor and a send of the
\* AlertManager, each waiting for its remote side
NextExternal ==
    \/ \E o \in QueryOptions : execute_query(o)
    \/ query_time_series_return
    \/ query_time_series_raise
    \/ \E a \in {a \in KeyedAlerts : a.fired_at = 1 /\ a.title = "m1"},
          channels \in NotificationChannels : send_alerts(<<a>>, channels)
    \/ \E s \in Statuses : session_post_return(s)
    \/ session_post_raise
    \/ channel_send_return
    \/ channel_send_raise

(***************************************************************************)
(* BaseMetric.historical_data and store_historical_data                    *)
(* (advanced-k8s-monitoring-agent.py lines 77-89).  Each entry carries the *)
(* clock reading of its call; the clock is read once per call and has      *)
(* advanced between two calls.                                             *)
(***************************************************************************)
\* the literal of line 88
HistoricalDataLimit == 1000

\* the data dict of a call
MetricData == {"data"}

\* lines 84-89: append, then drop the first element when the list holds
\* more than 1000
store_PopNewest(h, e) ==
    IF Len(Append(h, e)) > HistoricalDataLimit THEN h ELSE Append(h, e)

store(h, e) ==
    IF Len(Append(h, e)) > HistoricalDataLimit
    THEN Tail(Append(h, e))
    ELSE Append(h, e)

\* BaseMetric.__init__, lines 78-81
InitMetric ==
    /\ historical_data = << >>
    /\ utcnow = 0

\* BaseMetric.store_historical_data, lines 83-89
store_historical_data(data) ==
    /\ utcnow < MaxStores
    /\ utcnow' = utcnow + 1
    /\ historical_data' =
          store(historical_data, [timestamp |-> utcnow + 1, data |-> data])
    /\ UNCHANGED <<alertVars, cacheVars, nlqVars, execVars, fanVars, sendVars,
                   now, genVars>>

NextMetric ==
    \/ \E d \in MetricData : store_historical_data(d)

(***************************************************************************)
(* Specification of the AlertManager.                                      *)
(***************************************************************************)
\* time passes
TickAlert ==
    /\ now < MaxTime
    /\ now' = now + 1
    /\ UNCHANGED <<alertVars, cacheVars, nlqVars, execVars, fanVars, sendVars,
                   metricVars, genVars>>

\* the state after construction; the agent's cache_timeout defaults to 300
\* (k8s-ai-agent-main.py line 75)
InitAlertSpec ==
    /\ InitAlert
    /\ InitCache
    /\ InitNlq
    /\ InitExec
    /\ InitFan
    /\ InitSend
    /\ InitMetric
    /\ InitGen
    /\ cache_timeout = 300
    /\ now = 0

\* the state after construction, for a cache_timeout the clock can exceed
InitCacheSpec ==
    /\ InitAlert
    /\ InitCache
    /\ InitNlq
    /\ InitExec
    /\ InitFan
    /\ InitSend
    /\ InitMetric
    /\ InitGen
    /\ cache_timeout \in 1..MaxTimeout
    /\ now = 0

NextAlert ==
    \/ \E m \in MetricNames, c \in AlertConfig : add_alert(m, c)
    \/ \E t \in Tasks, m \in MetricNames, v \in Values : check_alert(t, m, v)
    \/ \E t \in Tasks : callback_return(t)
    \/ \E t \in Tasks : callback_raise(t)
    \/ TickAlert

SpecAlert == InitAlertSpec /\ [][NextAlert]_vars

SpecCache == InitCacheSpec /\ [][NextCache]_vars

SpecCacheThreads == InitCacheSpec /\ [][NextCacheThreads]_vars

SpecNlq == InitCacheSpec /\ [][NextNlq]_vars

SpecExec == InitAlertSpec /\ [][NextExec]_vars

SpecFan == InitAlertSpec /\ [][NextFan]_vars

SpecExternal == InitAlertSpec /\ [][NextExternal]_vars

SpecMetric == InitAlertSpec /\ [][NextMetric]_vars

SpecPrioritize == InitAlertSpec /\ [][NextPrioritize]_vars

SpecSend == InitAlertSpec /\ [][NextSend]_vars

(***************************************************************************)
(* Claims about the AlertManager, checked under SpecAlert.                 *)
(***************************************************************************)
\* the threshold condition in the words of the specification
Satisfies(config, value) ==
    \/ config.comparison = "gt" /\ value > config.threshold
    \/ config.comparison = "lt" /\ value < config.threshold
    \/ config.comparison = "eq" /\ value = config.threshold

\* task t has completed a check_alert call on a metric that had a rule
Evaluated(t) == pc[t] = "idle" /\ call[t].n > 0 /\ call[t].had_rule

\* C1: for a metric with a rule, a completed evaluate returns an AlertEvent
\* if and only if the value satisfies the rule's comparison, and returns
\* empty in every other case; the event carries the evaluated value and the
\* rule's threshold.
C1_EvaluateFiresIffSatisfied ==
    \A t \in Tasks : Evaluated(t) =>
        /\ Satisfies(call[t].config, call[t].value) <=> result[t].kind = "event"
        /\ ~Satisfies(call[t].config, call[t].value) <=> result[t].kind = "none"
        /\ result[t].kind = "event" =>
              /\ result[t].info.value = call[t].value
              /\ result[t].info.threshold = call[t].config.threshold

\* C2: the rule table holds, per metric, exactly the most recently
\* registered rule; every evaluation is decided by that rule alone; and a
\* registration changes the rule of no other metric.
C2_Table ==
    /\ DOMAIN alerts = {m \in MetricNames : reg_log[m] # << >>}
    /\ \A m \in DOMAIN alerts : alerts[m] = LastReg(m)
    /\ \A t \in Tasks : call[t].n > 0 =>
          (call[t].fired <=>
              /\ call[t].latest # NoConfig
              /\ Satisfies(call[t].latest, call[t].value))

C2_Frame ==
    \A m \in MetricNames :
        reg_log'[m] = reg_log[m] =>
            /\ (m \in DOMAIN alerts') = (m \in DOMAIN alerts)
            /\ m \in DOMAIN alerts => alerts'[m] = alerts[m]

\* C2: registering replaces the prior rule; other metrics' rules are unchanged
C2_RegisterReplaces == [](C2_Table) /\ [][C2_Frame]_vars

\* C2: a rule gt 80 replaced by a rule gt 90, then 85 evaluated: no alert
C2_Witness ==
    \E t \in Tasks :
        /\ call[t].n = 3
        /\ Len(reg_log[call[t].metric]) = 2
        /\ reg_log[call[t].metric][1].threshold = 80
        /\ reg_log[call[t].metric][1].comparison = "gt"
        /\ call[t].latest.threshold = 90
        /\ call[t].latest.comparison = "gt"
        /\ call[t].value = 85
        /\ ~call[t].fired

\* C3: evaluating a metric that has no rule returns empty, raises nothing,
\* appends nothing to the history, invokes no hook and leaves the rule table
\* unchanged.
C3_Step ==
    \A t \in Tasks :
        (call'[t].n # call[t].n /\ call'[t].metric \notin DOMAIN alerts) =>
            /\ result'[t] = None
            /\ pc'[t] = "idle"
            /\ alert_history' = alert_history
            /\ hook_calls' = hook_calls
            /\ alerts' = alerts

\* C3: every step that evaluates a metric without a rule is a no-op
C3_NoRuleIsNoOp == [][C3_Step]_vars

\* C3: a metric without a rule was evaluated while another had fired
C3_Witness ==
    \E t \in Tasks :
        /\ call[t].n > 0
        /\ ~call[t].had_rule
        /\ result[t] = None
        /\ DOMAIN alerts # {}
        /\ alert_history # << >>

\* C4: a check_alert call whose value satisfies the rule appends exactly one
\* AlertEvent to the history and invokes the hook exactly once with it; any
\* other step appends nothing and invokes no hook.
C4_Step ==
    LET callers == {t \in Tasks : call'[t].n # call[t].n}
    IN  IF \E t \in callers :
               /\ call'[t].metric \in DOMAIN alerts
               /\ Satisfies(alerts[call'[t].metric], call'[t].value)
        THEN \E e \in [metric : MetricNames, value : Values,
                       threshold : Thresholds, timestamp : {now},
                       description : Descriptions] :
                /\ \A t \in callers :
                      /\ e.metric = call'[t].metric
                      /\ e.value = call'[t].value
                /\ alert_history' = Append(alert_history, e)
                /\ hook_calls' = Append(hook_calls, e)
        ELSE /\ alert_history' = alert_history
             /\ hook_calls' = hook_calls

\* C4: one history entry and one hook invocation per qualifying call
C4_OneEventOneHookPerQualifyingCall == [][C4_Step]_vars

\* C4: two qualifying evaluations of one metric, two entries, two hook calls
C4_Witness ==
    /\ Len(alert_history) = 2
    /\ alert_history[1].metric = alert_history[2].metric
    /\ Len(hook_calls) = 2

\* C5: the number of AlertEvents retained in the history never exceeds a
\* fixed cap.
C5_HistoryBounded == Len(alert_history) <= HistoryCap

\* the per-metric alert state, read off the rule table and the outcome of
\* the metric's most recent evaluation (the code keeps no state field)
Phase(m) ==
    IF m \notin DOMAIN alerts THEN "Idle"
    ELSE IF last_eval[m].fired THEN "Firing"
    ELSE "Armed"

\* C6: a metric with no rule is Idle; a metric with a rule is Firing exactly
\* when its most recent evaluation satisfied the rule, and Armed otherwise.
C6_State ==
    \A m \in MetricNames :
        /\ m \notin DOMAIN alerts <=> Phase(m) = "Idle"
        /\ m \in DOMAIN alerts =>
              /\ Phase(m) = "Firing" <=>
                    /\ last_eval[m].n > 0
                    /\ last_eval[m].had_rule
                    /\ Satisfies(last_eval[m].config, last_eval[m].value)
              /\ Phase(m) # "Firing" <=> Phase(m) = "Armed"

\* C6: a qualifying value moves an Armed metric to Firing; a non-qualifying
\* value returns a Firing metric to Armed.
C6_Step ==
    \A m \in DOMAIN alerts :
        last_eval'[m].n # last_eval[m].n =>
            /\ (Phase(m) = "Armed" /\ Satisfies(alerts[m], last_eval'[m].value))
                  => Phase(m)' = "Firing"
            /\ (Phase(m) = "Firing" /\ ~Satisfies(alerts[m], last_eval'[m].value))
                  => Phase(m)' = "Armed"

\* C6: the Idle / Armed / Firing state machine holds per metric
C6_AlertStateMachine == [](C6_State) /\ [][C6_Step]_vars

\* C6: a metric that fired is back to Armed after a non-qualifying value
C6_Witness ==
    \E m \in MetricNames :
        /\ Phase(m) = "Armed"
        /\ last_eval[m].n = 3
        /\ \E i \in DOMAIN alert_history : alert_history[i].metric = m

\* number of entries of h equal to e
Count(h, e) == Cardinality({i \in DOMAIN h : h[i] = e})

\* C7: no history update of overlapping evaluations is lost: the history
\* holds one entry for every event built by a call, each hook invocation got
\* the event appended by its own call, and a call that returns an event
\* returns its own.
C7_NoLostUpdate ==
    /\ hook_calls = alert_history
    /\ \A t \in Tasks : call[t].fired =>
          /\ alert_info[t].metric = call[t].metric
          /\ alert_info[t].value = call[t].value
          /\ Count(alert_history, alert_info[t]) >=
                Cardinality({u \in Tasks :
                    call[u].fired /\ alert_info[u] = alert_info[t]})
    /\ \A t \in Tasks : result[t].kind = "event" /\ pc[t] = "idle" =>
          result[t].info = alert_info[t]

\* C7: two qualifying evaluations of one metric overlapped and completed
C7_Witness ==
    /\ overlapped
    /\ \A t \in Tasks : pc[t] = "idle" /\ call[t].fired
    /\ call[1].metric = call[2].metric
    /\ Len(alert_history) = 2

(***************************************************************************)
(* Claims about the TTL cache.  The claims about one caller's calls are    *)
(* checked under SpecCache, the claim about concurrent calls under         *)
(* SpecCacheThreads.                                                       *)
(***************************************************************************)
\* thread th has completed a _cache_get and made no call since
GetDone(th) == cpc[th] = "idle" /\ cop[th].op = "get"

\* what a get of thread th has to return according to the last completed
\* set of its (cache_type, key): the value while now - stored_at <= ttl,
\* empty when there was no set or now - stored_at > ttl
Expected(th) ==
    LET s == last_set[<<cop[th].cache_type, cop[th].key>>]
    IN  IF s # NoSet /\ cret[th].at - s.at <= cache_timeout
        THEN s.value ELSE "None"

\* C8 as stated: for every namespace, cache_set(ns, k, v) followed by
\* cache_get(ns, k) returns v as long as now - stored_at <= ttl, and empty
\* when the entry is missing or now - stored_at > ttl.
C8_SetThenGetAnyNamespace ==
    \A th \in Threads : GetDone(th) => cret[th].value = Expected(th)

\* C8 as amended: the same for the namespaces the cache was initialised
\* with; for any other namespace cache_set stores nothing and cache_get
\* returns empty.
C8_SetThenGet ==
    \A th \in Threads : GetDone(th) =>
        IF cop[th].cache_type \in {"metrics", "resources", "events", "analysis"}
        THEN cret[th].value = Expected(th)
        ELSE cret[th].value = "None"

\* C8: a hit exactly at the boundary now - stored_at = ttl
C8_Witness ==
    \E th \in Threads :
        /\ GetDone(th)
        /\ cret[th].line = 175
        /\ cret[th].value \in CacheValues
        /\ cret[th].at - last_set[<<cop[th].cache_type, cop[th].key>>].at
              = cache_timeout

\* C9: after a cache_get that found the entry expired, neither the value nor
\* the timestamp of that entry is held in the store.
C9_ExpiredEntryPurged ==
    \A th \in Threads : (GetDone(th) /\ cret[th].line = 173) =>
        /\ cop[th].key \notin DOMAIN cache[cop[th].cache_type]
        /\ TimestampKey(cop[th].cache_type, cop[th].key)
              \notin DOMAIN cache_timestamps

\* C10: a get that returns a value has observed a complete entry: the value
\* it returns and the stored_at it judged the entry by were stored together
\* by one set.
C10_GetObservesCompleteEntry ==
    \A th \in Threads : (GetDone(th) /\ cret[th].line = 175) =>
        [cache_type |-> cop[th].cache_type, key |-> cop[th].key,
         value |-> cret[th].value, stored_at |-> timestamp[th]] \in written

\* the entry held under (c, k): its value and its stored_at
Entry(c, k) ==
    [value |-> DictGet(cache[c], k, "None"),
     stored_at |-> DictGet(cache_timestamps, TimestampKey(c, k), NoTimestamp)]

\* the latest completed set of (c, k), NoSet when there was none
LatestSet(c, k) ==
    IF <<c, k>> \in DOMAIN last_set THEN last_set[<<c, k>>] ELSE NoSet

\* C11: cache_set on a key that holds an entry replaces it.  Between calls,
\* the entry under every (namespace, key) holds the value and the time of
\* the latest completed set of that (namespace, key) and of no other, so a
\* set changes the entry of its own key only; and a get judges the entry by
\* the time of the latest set: it returns the latest value while
\* now - (time of the latest set) <= ttl and empty afterwards.
C11_SetReplaces ==
    /\ (\A th \in Threads : cpc[th] = "idle")
          => \A c \in CacheTypes, k \in Keys :
                IF LatestSet(c, k) = NoSet
                THEN Entry(c, k) = [value |-> "None", stored_at |-> NoTimestamp]
                ELSE Entry(c, k) = [value |-> LatestSet(c, k).value,
                                    stored_at |-> LatestSet(c, k).at]
    /\ \A th \in Threads :
          (GetDone(th) /\ cop[th].cache_type \in CacheTypes
              /\ LatestSet(cop[th].cache_type, cop[th].key) # NoSet) =>
             LET s == LatestSet(cop[th].cache_type, cop[th].key)
             IN  /\ timestamp[th] = s.at
                 /\ cret[th].at - s.at <= cache_timeout
                       => (cret[th].line = 175 /\ cret[th].value = s.value)
                 /\ cret[th].at - s.at > cache_timeout
                       => (cret[th].line = 173 /\ cret[th].value = "None")

\* C11: an entry set at one time and set again later with another value is
\* returned with the new value at a time when the first set's ttl is over
C11_Witness ==
    \E th \in Threads :
        /\ GetDone(th)
        /\ cret[th].line = 175
        /\ cret[th].value = last_set[<<cop[th].cache_type, cop[th].key>>].value
        /\ \E w \in written :
              /\ w.cache_type = cop[th].cache_type
              /\ w.key = cop[th].key
              /\ w.value # cret[th].value
              /\ w.stored_at < last_set[<<cop[th].cache_type, cop[th].key>>].at
              /\ cret[th].at - w.stored_at > cache_timeout

(***************************************************************************)
(* Claims about process_natural_language_query, checked under SpecNlq.     *)
(***************************************************************************)
\* task t has completed a call whose analysis succeeded
NlqDone(t) ==
    nlq_pc[t] = "idle" /\ nlq_call[t].n > 0 /\ nlq_call[t].cache_key # ""

\* C12: a call that finds an unexpired entry under its key returns the
\* cached result and does not invoke the handler; a call that finds none
\* invokes the handler once and, when the handler returns, stores its result
\* under the key.
C12_HitBypassesHandler ==
    \A t \in Tasks : NlqDone(t) =>
        IF nlq_call[t].live
        THEN /\ nlq_call[t].invoked = 0
             /\ nlq_ret[t] = [kind |-> "response", value |-> nlq_call[t].entry]
        ELSE /\ nlq_call[t].invoked = 1
             /\ nlq_ret[t].kind = "response" =>
                   nlq_call[t].stored = nlq_ret[t].value

(***************************************************************************)
(* Claims about the QueryExecutor, checked under SpecExec.                 *)
(***************************************************************************)
\* execute_query has returned the cross-series reduction of a response that
\* holds time series
ExecReduced ==
    /\ exec_pc = "done"
    /\ exec_ret.fetch = "ok"
    /\ options.cross_series_reducer # "None"
    /\ collector # << >>

\* the (series, point) positions of the response
Positions ==
    {x \in (DOMAIN collector) \X (1..MaxPoints) :
        x[2] \in DOMAIN collector[x[1]].points}

PointAt(x) == collector[x[1]].points[x[2]]

\* C13: the reduction of a response (all series in one group) emits exactly
\* one point for every timestamp at which at least one series has a point
\* and none for any other timestamp, in ascending order of timestamp and
\* without duplicates.
C13_OnePointPerCoveredTimestamp ==
    (ExecReduced /\ options.group_by_fields = << >>) =>
        /\ Len(exec_ret.series) = 1
        /\ LET out == exec_ret.series[1].points
           IN  /\ {out[i].timestamp : i \in DOMAIN out}
                     = {PointAt(x).timestamp : x \in Positions}
               /\ \A i, j \in DOMAIN out :
                     i < j => out[i].timestamp < out[j].timestamp

\* the positions of the numeric points at timestamp ts
NumericAt(ts) ==
    {x \in Positions :
        /\ PointAt(x).timestamp = ts
        /\ PointAt(x).value.kind \in {"double_value", "int64_value"}}

RECURSIVE SumAt(_)
SumAt(X) ==
    IF X = {} THEN 0
    ELSE LET x == CHOOSE y \in X : TRUE
         IN  PointAt(x).value.v + SumAt(X \ {x})

\* C14: every output point of a reduction carries the chosen reducer applied
\* to the multiset of the numeric values that the points of all series have
\* at the output point's timestamp: their arithmetic mean, their maximum,
\* their minimum or their sum; every point at that timestamp counts, also
\* several of one series, and no point of another timestamp does.
C14_ReducedValue ==
    ExecReduced =>
        \A s \in DOMAIN exec_ret.series :
            \A i \in DOMAIN exec_ret.series[s].points :
                LET point == exec_ret.series[s].points[i]
                    X == NumericAt(point.timestamp)
                    r == options.cross_series_reducer
                IN  /\ X # {}
                    /\ point.value.type = "number"
                    /\ r = "REDUCE_MEAN" =>
                          point.value.num * Cardinality(X)
                              = SumAt(X) * point.value.den
                    /\ r = "REDUCE_SUM" =>
                          point.value.num = SumAt(X) * point.value.den
                    /\ r = "REDUCE_MAX" =>
                          \E x \in X :
                              /\ point.value.num = PointAt(x).value.v * point.value.den
                              /\ \A y \in X : PointAt(y).value.v <= PointAt(x).value.v
                    /\ r = "REDUCE_MIN" =>
                          \E x \in X :
                              /\ point.value.num = PointAt(x).value.v * point.value.den
                              /\ \A y \in X : PointAt(y).value.v >= PointAt(x).value.v

\* C14: the mean of the values 1 and 3 that two series have at one timestamp
C14_Witness ==
    /\ ExecReduced
    /\ options.cross_series_reducer = "REDUCE_MEAN"
    /\ Len(collector) = 2
    /\ \E ts \in Timestamps : Cardinality(NumericAt(ts)) = 2 /\ SumAt(NumericAt(ts)) = 4
    /\ exec_ret.series[1].points[1].value.num = 2 * exec_ret.series[1].points[1].value.den

\* the response without its non-numeric points
NumericOnly(response) ==
    LET numeric(point) == point.value.kind \in {"double_value", "int64_value"}
    IN  [i \in DOMAIN response |->
            [response[i] EXCEPT !.points = SelectSeq(@, numeric)]]

\* C15: the reduction of a response that holds non-numeric points (a
\* distribution, a value that is no number) raises nothing and returns what
\* the reduction of the response without those points returns.
C15_NonNumericExcluded ==
    ExecReduced =>
        /\ exec_ret.kind = "returned"
        /\ ~exec_ret.printed
        /\ exec_ret.series =
              process_time_series_response(NumericOnly(collector), options)

\* C15: a distribution and a number at one timestamp are reduced to the number
C15_Witness ==
    /\ ExecReduced
    /\ \E x, y \in Positions :
          /\ PointAt(x).timestamp = PointAt(y).timestamp
          /\ PointAt(x).value.kind = "distribution_value"
          /\ PointAt(y).value.kind = "double_value"
          /\ exec_ret.series[1].points[1].timestamp = PointAt(x).timestamp
          /\ exec_ret.series[1].points[1].value = Number(PointAt(y).value.v, 1)

\* the group key of a time series: the values of its resource labels named
\* in group_by_fields, "unset" for a missing label
GroupKey(time_series) ==
    [j \in DOMAIN options.group_by_fields |->
        IF time_series.resource[options.group_by_fields[j]] = "None"
        THEN "unset"
        ELSE time_series.resource[options.group_by_fields[j]]]

\* C16: with group_by_fields set, the reduction returns one reduced series
\* for every distinct group key of the response, and the points of each are
\* the reduction of the series of that group alone.
C16_OneSeriesPerGroup ==
    (ExecReduced /\ options.group_by_fields # << >>) =>
        LET keys == {GroupKey(collector[i]) : i \in DOMAIN collector}
            group(k) == LET in_group(time_series) == GroupKey(time_series) = k
                        IN  SelectSeq(collector, in_group)
        IN  /\ Len(exec_ret.series) = Cardinality(keys)
            /\ \A k \in keys :
                  \E s \in DOMAIN exec_ret.series :
                      exec_ret.series[s].points =
                          process_time_series_response(group(k), options)[1].points

\* C17: execute_query never raises: when the fetch fails it returns an empty
\* list and the failure is printed; when the fetch returns no time series it
\* returns an empty list, with or without a reducer, and prints nothing.
C17_NeverRaises ==
    /\ exec_ret.kind # "raised"
    /\ exec_pc = "done" =>
          /\ exec_ret.kind = "returned"
          /\ exec_ret.fetch = "failed" =>
                (exec_ret.series = << >> /\ exec_ret.printed)
          /\ (exec_ret.fetch = "ok" /\ collector = << >>) =>
                (exec_ret.series = << >> /\ ~exec_ret.printed)

\* C17: the fetch failed although the backend holds time series
C17_Witness ==
    /\ exec_pc = "done"
    /\ exec_ret.fetch = "failed"
    /\ collector # << >>
    /\ exec_ret = [kind |-> "returned", series |-> << >>, printed |-> TRUE,
                   fetches |-> 1, fetch |-> "failed"]

\* a malformed QuerySpec: start >= end, or alignment_period <= 0
Malformed(opts) ==
    opts.start_time >= opts.end_time \/ opts.alignment_period = "0s"

\* C18: execute_query with a malformed QuerySpec ends with a QueryError for
\* the caller and the query is sent at most once.
C18_MalformedSpecIsQueryError ==
    (exec_pc = "done" /\ Malformed(options)) =>
        /\ exec_ret.kind = "QueryError"
        /\ exec_ret.fetches <= 1

(***************************************************************************)
(* Claims about the fan-out drivers, checked under SpecFan.                *)
(***************************************************************************)
\* C19: when the driver proceeds past gather, every pipeline it dispatched
\* has completed, and the combined result holds the result of every
\* pipeline that succeeded, whatever happened to the others.
C19_FailureKeepsSiblings ==
    fan_pc \in {"returned", "raised"} =>
        /\ \A i \in DOMAIN tasks : tasks[i].state # "pending"
        /\ \A i \in DOMAIN tasks :
              (tasks[i].state = "done" /\ tasks[i].result = "data") =>
                  /\ tasks[i].title \in DOMAIN results
                  /\ results[tasks[i].title] = "data"


(***************************************************************************)
(* Claims about the external calls, checked under SpecExternal.            *)
(***************************************************************************)
\* the external calls in flight, with the timeout their caller passed
InFlight ==
    (IF exec_pc = "await_168"
     THEN {[call |-> "query_time_series",
            timeout |-> query_time_series_timeout(options)]}
     ELSE {})
    \cup
    (IF send_pc = "await_417"
     THEN {[call |-> "session.post",
            timeout |-> session_post_timeout(notification_channels[send_i])]}
     ELSE {})

\* C20: every Collector fetch and every notification send that is waiting
\* for its remote side is bounded by a timeout its caller supplied, so that
\* it returns even when the remote side never responds
C20_ExternalCallsBounded ==
    \A c \in InFlight : c.timeout # "None"


(***************************************************************************)
(* Claims about a raising notification hook, checked under SpecAlert.      *)
(***************************************************************************)
\* task t's last check_alert qualified and left with the hook's exception
HookRaised(t) ==
    /\ pc[t] = "idle"
    /\ call[t].fired
    /\ result[t].kind = "raised"

\* C28: when the notification hook raises during a qualifying evaluation,
\* the event of that evaluation is in the history and stays there, the
\* exception reaches the caller and no event is returned
C28_RaisedHookLeavesEvent ==
    \A t \in Tasks :
        HookRaised(t) =>
            /\ \E i \in DOMAIN alert_history :
                  /\ alert_history[i] = alert_info[t]
                  /\ alert_history[i].metric = call[t].metric
                  /\ alert_history[i].value = call[t].value
            /\ result[t].info = NoInfo

\* a hook has raised after a qualifying evaluation
C28_Witness ==
    \E t \in Tasks :
        /\ HookRaised(t)
        /\ \E i \in DOMAIN alert_history : alert_history[i] = alert_info[t]


(***************************************************************************)
(* Claims about failed queries, checked under SpecNlq.                     *)
(***************************************************************************)
\* this step is task t leaving process_natural_language_query through the
\* handler of lines 219-221
ReturnsError(t) ==
    /\ nlq_ret'[t].kind = "error"
    /\ \/ nlq_pc[t] = "await_212" /\ nlq_pc'[t] = "idle"
       \/ nlq_call'[t].n # nlq_call[t].n

\* the entries of the analysis cache are responses a handler returned, each
\* with its timestamp
OnlyResponsesStored ==
    \A k \in DOMAIN cache["analysis"] :
        /\ cache["analysis"][k] \in Responses
        /\ TimestampKey("analysis", k) \in DOMAIN cache_timestamps

\* a call that raises leaves the values, the timestamps and the outcome of
\* every lookup as they were
FailureLeavesCache ==
    \A t \in Tasks :
        ReturnsError(t) =>
            /\ cache' = cache
            /\ cache_timestamps' = cache_timestamps
            /\ \A q \in QueryTypes, p \in QueryParams :
                  CacheGet("analysis", CacheKey(q, p))' =
                      CacheGet("analysis", CacheKey(q, p))

\* C30: a failed computation is never cached: a call that raises returns the
\* error text and leaves the cache values and timestamps unchanged, so an
\* identical query that missed before misses again, and only responses of
\* handlers are ever stored
C30_FailureNotCached == [](OnlyResponsesStored) /\ [][FailureLeavesCache]_vars

\* a handler raised for a key that has no entry, and the call returned the
\* error text
C30_Witness ==
    \E t \in Tasks :
        /\ nlq_pc[t] = "idle"
        /\ nlq_ret[t].kind = "error"
        /\ nlq_call[t].invoked = 1
        /\ nlq_call[t].cache_key \notin DOMAIN cache["analysis"]


(***************************************************************************)
(* Claims about the historical data of a metric, checked under SpecMetric. *)
(***************************************************************************)
\* C27: the retained historical data never holds more than 1000 entries,
\* and it holds the most recent entries in insertion order: once it is
\* full, each new entry evicts exactly the oldest one
C27_BoundedWindow ==
    /\ Len(historical_data) <= HistoricalDataLimit
    /\ Len(historical_data) =
          IF utcnow <= HistoricalDataLimit THEN utcnow ELSE HistoricalDataLimit
    /\ \A i \in DOMAIN historical_data :
          historical_data[i].timestamp = utcnow - Len(historical_data) + i

\* more than 1000 entries were stored: the window is full and begins with
\* the 1000th most recent entry
C27_Witness ==
    /\ utcnow > HistoricalDataLimit
    /\ Len(historical_data) = HistoricalDataLimit
    /\ historical_data[1].timestamp = utcnow - HistoricalDataLimit + 1


(***************************************************************************)
(* Claims about the prioritizer, checked under SpecPrioritize.             *)
(***************************************************************************)
\* the weights of the claim, in tenths
SeverityWeight(severity) ==
    CASE severity = "CRITICAL" -> 10
      [] severity = "HIGH" -> 8
      [] severity = "MEDIUM" -> 6
      [] severity = "LOW" -> 4
      [] severity = "INFO" -> 2

\* the score of the claim: weight * (1 + impact) * (1 + min(frequency/100,
\* 1)) * multiplier, an absent impact or frequency counting as 0, an absent
\* or unlisted service as 1, and the frequency factor being 2 from 100 on
ClaimedScore(alert) ==
    LET impact == IF alert.impact_score = Absent THEN Number(0, 1)
                  ELSE alert.impact_score
        frequency == IF alert.frequency = Absent THEN Number(0, 1)
                     ELSE alert.frequency
        factor == IF frequency.num >= 100 * frequency.den
                  THEN Number(2, 1)
                  ELSE Number(100 * frequency.den + frequency.num,
                              100 * frequency.den)
        multiplier == IF alert.service \in DOMAIN service_criticality
                      THEN service_criticality[alert.service]
                      ELSE Number(1, 1)
    IN  Number(SeverityWeight(alert.severity) * (impact.den + impact.num)
                   * factor.num * multiplier.num,
               10 * impact.den * factor.den * multiplier.den)

\* C21: the priority score of every alert is severity weight * (1 + impact
\* score or 0) * (1 + min(frequency / 100, 1)) * criticality multiplier
\* (default 1), so the frequency factor is 2 for every frequency >= 100
C21_PriorityScore ==
    \A i \in DOMAIN scored_alerts :
        Equal(scored_alerts[i].score, ClaimedScore(scored_alerts[i].alert))

\* a CRITICAL alert of impact 0.5, frequency 250 and a service of
\* multiplier 1.5 was scored 1.0 * 1.5 * 2 * 1.5 = 4.5
C21_Witness ==
    \E i \in DOMAIN scored_alerts :
        /\ scored_alerts[i].alert.severity = "CRITICAL"
        /\ scored_alerts[i].alert.impact_score = Number(1, 2)
        /\ scored_alerts[i].alert.frequency = Number(250, 1)
        /\ scored_alerts[i].alert.service = "api"
        /\ Equal(scored_alerts[i].score, Number(45, 10))


\* C22: prioritize does not fail, returns its input alerts, each exactly
\* once, by descending score, and orders alerts of equal score by most
\* recent fired_at first
C22_PrioritizeOrdersAll ==
    gen_pc = "done" =>
        /\ gen_ret.kind = "returned"
        /\ Len(gen_ret.alerts) = Len(unique_alerts)
        /\ \A i \in DOMAIN unique_alerts :
              Count(gen_ret.alerts, unique_alerts[i]) =
                  Count(unique_alerts, unique_alerts[i])
        /\ \A i, j \in DOMAIN gen_ret.alerts :
              i < j =>
                  LET x == calculate_alert_priority(gen_ret.alerts[i])
                      y == calculate_alert_priority(gen_ret.alerts[j])
                  IN  /\ ~Less(x, y)
                      /\ Equal(x, y) =>
                            gen_ret.alerts[i].fired_at >=
                                gen_ret.alerts[j].fired_at

\* the positions of the batch whose alert has the key of alert
WithKey(alert_list, alert) ==
    {i \in DOMAIN alert_list : DedupKey(alert_list[i]) = DedupKey(alert)}

\* C23: deduplication keeps, for every key (identity, service, severity)
\* present in the batch, exactly one event, the first one of that key, and
\* adds none; so two events that differ only in fired_at yield one event
C23_DedupKeepsFirst ==
    gen_pc # "idle" =>
        /\ \A i \in DOMAIN gen_in :
              LET first == CHOOSE k \in WithKey(gen_in, gen_in[i]) :
                              \A l \in WithKey(gen_in, gen_in[i]) : k <= l
              IN  /\ Cardinality(WithKey(unique_alerts, gen_in[i])) = 1
                  /\ \A j \in WithKey(unique_alerts, gen_in[i]) :
                        unique_alerts[j] = gen_in[first]
        /\ \A j \in DOMAIN unique_alerts : WithKey(gen_in, unique_alerts[j]) # {}

\* a batch of two events of one key that differ in fired_at was reduced to
\* its first event
C23_Witness ==
    /\ gen_pc # "idle"
    /\ Len(gen_in) = 2
    /\ DedupKey(gen_in[1]) = DedupKey(gen_in[2])
    /\ gen_in[1].fired_at # gen_in[2].fired_at
    /\ unique_alerts = <<gen_in[1]>>


(***************************************************************************)
(* Claims about the delivery of a batch, checked under SpecSend.           *)
(***************************************************************************)
\* the completed sends of alert a to channel i
Sends(a, i) == {k \in DOMAIN attempts : attempts[k].a = a /\ attempts[k].i = i}

\* alert a of the batch has the key of an earlier alert of the batch
JudgedDuplicate(a) ==
    \E b \in 1..(a - 1) : DedupKey(batch[b]) = DedupKey(batch[a])

\* C24: a channel failure is logged; the alert is still sent to the
\* remaining channels, the later alerts of the batch are still delivered,
\* and send_alerts returns
C24_ChannelFailureIsolated ==
    /\ Len(send_log) =
          Cardinality({k \in DOMAIN attempts : ~attempts[k].ok})
    /\ send_pc = "done" =>
          \A k \in DOMAIN attempts :
              ~attempts[k].ok =>
                  /\ \A i \in DOMAIN notification_channels :
                        i > attempts[k].i => Sends(attempts[k].a, i) # {}
                  /\ \A a \in DOMAIN batch :
                        (a > attempts[k].a /\ ~JudgedDuplicate(a)) =>
                            \A i \in DOMAIN notification_channels :
                                Sends(a, i) # {}
                  /\ send_a = Len(batch) + 1

\* the first channel failed for the first alert, and the second channel and
\* the second alert were still served
C24_Witness ==
    /\ send_pc = "done"
    /\ Len(batch) = 2
    /\ Len(notification_channels) = 2
    /\ ~JudgedDuplicate(2)
    /\ attempts[1] = [a |-> 1, i |-> 1, ok |-> FALSE]
    /\ Sends(1, 2) # {}
    /\ Sends(2, 1) # {}
    /\ send_log # << >>

\* C29: the alerts are handled in the given order; an alert not judged a
\* duplicate is sent to every channel and then recorded as sent, whether or
\* not a send succeeded; an alert judged a duplicate is neither sent nor
\* recorded
C29_SendThenRecord ==
    /\ \A k, l \in DOMAIN attempts :
          k < l => \/ attempts[k].a < attempts[l].a
                   \/ /\ attempts[k].a = attempts[l].a
                      /\ attempts[k].i < attempts[l].i
    /\ \A k, l \in DOMAIN recorded : k < l => recorded[k] < recorded[l]
    /\ \A k \in DOMAIN recorded :
          /\ \A i \in DOMAIN notification_channels :
                Cardinality(Sends(recorded[k], i)) = 1
          /\ DedupKey(batch[recorded[k]]) \in sent_alerts
    /\ send_pc = "done" =>
          \A a \in DOMAIN batch :
              IF JudgedDuplicate(a)
              THEN /\ \A i \in DOMAIN notification_channels : Sends(a, i) = {}
                   /\ Count(recorded, a) = 0
              ELSE Count(recorded, a) = 1

\* an alert whose sends failed on both channels is recorded as sent, and a
\* later alert of its key was neither sent nor recorded
C29_Witness ==
    /\ send_pc = "done"
    /\ Len(batch) = 2
    /\ Len(notification_channels) = 2
    /\ JudgedDuplicate(2)
    /\ \A k \in DOMAIN attempts : attempts[k].a = 1 /\ ~attempts[k].ok
    /\ Len(attempts) = 2
    /\ recorded = <<1>>
    /\ DedupKey(batch[1]) \in sent_alerts

====
